---- MODULE Spec2Model ----
(***************************************************************************)
(* Model of the process scheduling simulator (process.py, scheduler.py).   *)
(* A scheduler instance owns three lists of processes (runnable, waiting,  *)
(* done), a clock and the current process; one of four policies (FIFO,     *)
(* SJF, Round-Robin, SRTF) supplies step().  Processes are held in a store *)
(* indexed by their position in the input list; the lists hold indices,    *)
(* as the Python lists hold references to the Process objects.             *)
(***************************************************************************)
EXTENDS Integers, Sequences, FiniteSets, TLC

\* ---- bounds of the checked inputs ----
MaxProcs == 3
MaxExTime == 3
MaxArrival == 1
MaxSlice == 2
\* longest input list of the runs checked for termination
MaxRunProcs == 2
\* the longest input list of the observer runs (beside the fixed ones)
MaxObsProcs == 0
\* the longest input list of the runs with statistics (beside the fixed ones)
MaxStatProcs == 2
\* the longest list several schedulers are built from (beside the fixed ones)
MaxShareProcs == 1
\* the longest list the schedulers given to compare are built from (beside
\* the fixed ones)
MaxCmpProcs == 0
\* the most schedulers given to compare
MaxScheds == 2
\* the most visuals given to compare
MaxVisuals == 1
\* the most listeners registered on one hook
MaxListeners == 2

VARIABLES
    policy,          \* which Scheduler subclass this instance is
    time_slice,      \* RoundRobinScheduler._time_slice (0 for the others)
    processes,       \* the input list handed to the constructor
    proc,            \* the deep-copied Process objects, by input index
    runnable,        \* Scheduler._runnable
    waiting,         \* Scheduler._waiting
    done_processes,  \* Scheduler._done_processes
    time,            \* Scheduler._time
    curr_process,    \* Scheduler._curr_process (0 = None)
    step_time_ran,   \* Scheduler._step_time_ran
    time_leftover,   \* the time_leftover the run of the last step returned
    asserts_ok,      \* FALSE once an assert statement of the code has failed
    quanta,          \* history: sum of step_time_ran over the steps so far
    nsteps,          \* history: number of step() calls so far
    verbose,         \* Scheduler._verbose
    step_end_listeners,         \* Scheduler._step_end_listeners
    process_done_listeners,     \* Scheduler._process_done_listeners
    process_arrive_listeners,   \* Scheduler._process_arrive_listeners
    events,          \* history: what the last step() did, in the order of
                     \* its statements
    stats,           \* Scheduler.stats
    outcome,         \* how run() ended: "" (not yet), "returned" or the
                     \* exception it raised
    heap,            \* every Process object there is when several schedulers
                     \* are built from one list: the objects of the caller's
                     \* list first, then the objects the constructors made
    schedulers,      \* the schedulers built from that list, in the order
                     \* they were built
    cmp,             \* Simulator.compare: where it is (pc), how many
                     \* schedulers it has run (i), how many visuals it was
                     \* given (nvis) and has called (shown)
    history          \* Simulator.compare: title -> the scheduler whose
                     \* stats dictionary the entry is

observers == <<verbose, step_end_listeners, process_done_listeners,
               process_arrive_listeners>>

results == <<stats, outcome>>

\* the variables of several schedulers built from one list
several == <<heap, schedulers, cmp, history>>

vars == <<policy, time_slice, processes, proc, runnable, waiting,
          done_processes, time, curr_process, step_time_ran,
          time_leftover, asserts_ok,
          quanta, nsteps, observers, events, results, heap, schedulers,
          cmp, history>>

Min(a, b) == IF a < b THEN a ELSE b

\* ------------------------------------------------------------------------
\* process.py
\* ------------------------------------------------------------------------

Process(ex, arr) ==
    [ex_time |-> ex, arrival_time |-> arr,
     processed_time |-> 0, comp_time |-> 0, wait_time |-> 0]

time_left(p) == p.ex_time - p.processed_time

proc_is_done(p) == p.processed_time >= p.ex_time

\* Process.run without the min: the whole running_time is taken as run
ProcRunNoMin(p, running_time) ==
    LET time_ran == running_time
    IN [p |-> [p EXCEPT !.processed_time = @ + time_ran,
                        !.comp_time = @ + time_ran],
        time_ran |-> time_ran,
        time_leftover |-> running_time - time_ran,
        ok |-> running_time > 0]

\* Process.run: returns the updated process, (time_ran, time_leftover) and
\* whether the assert on running_time passed
ProcRun(p, running_time) ==
    LET time_ran == Min(time_left(p), running_time)
    IN [p |-> [p EXCEPT !.processed_time = @ + time_ran,
                        !.comp_time = @ + time_ran],
        time_ran |-> time_ran,
        time_leftover |-> running_time - time_ran,
        ok |-> running_time > 0]

\* Process.wait that leaves the completion time alone
ProcWaitNoComp(p, waiting_time) ==
    [p EXCEPT !.wait_time = @ + waiting_time]

\* Process.wait
ProcWait(p, waiting_time) ==
    [p EXCEPT !.wait_time = @ + waiting_time,
              !.comp_time = @ + waiting_time]

\* the asserts of Process.wait_arrival and of the Process.wait it calls
WaitArrivalAsserts(p, waiting_time) ==
    /\ waiting_time >= 0
    /\ waiting_time - Min(p.arrival_time, waiting_time) >= 0

\* wait_arrival charging the whole time as wait
ProcWaitArrivalAll(p, waiting_time) ==
    LET arrival_wait_time == Min(p.arrival_time, waiting_time)
    IN ProcWait([p EXCEPT !.arrival_time = @ - arrival_wait_time],
                waiting_time)

\* Process.wait_arrival: the updated process (its return value is
\* arrival_time = 0 of the result)
ProcWaitArrival(p, waiting_time) ==
    LET arrival_wait_time == Min(p.arrival_time, waiting_time)
    IN ProcWait([p EXCEPT !.arrival_time = @ - arrival_wait_time],
                waiting_time - arrival_wait_time)

\* __lt__ without the tie-break on ex_time
LtArrivalOnly(p, q) == p.arrival_time < q.arrival_time

\* Process.__lt__
Lt(p, q) ==
    IF p.arrival_time = q.arrival_time
    THEN p.ex_time < q.ex_time
    ELSE p.arrival_time < q.arrival_time

\* ------------------------------------------------------------------------
\* list helpers (bisect.insort, list.sort)
\* ------------------------------------------------------------------------

RECURSIVE BisectRight(_, _, _, _, _)
\* bisect.bisect_right(a, x): binary search with x < a[mid]; 0-based lo, hi
BisectRight(store, a, x, lo, hi) ==
    IF lo < hi
    THEN LET mid == (lo + hi) \div 2
         IN IF Lt(store[x], store[a[mid + 1]])
            THEN BisectRight(store, a, x, lo, mid)
            ELSE BisectRight(store, a, x, mid + 1, hi)
    ELSE lo

\* an insertion at the end of the list (a.append(x))
InsortAppend(store, a, x) == Append(a, x)

\* bisect.insort(a, x)
Insort(store, a, x) ==
    LET pos == BisectRight(store, a, x, 0, Len(a))
    IN SubSeq(a, 1, pos) \o <<x>> \o SubSeq(a, pos + 1, Len(a))

RECURSIVE LinearInsert(_, _, _)
\* the place a stable sort gives x when it follows the elements of a
LinearInsert(store, a, x) ==
    IF a = <<>> THEN <<x>>
    ELSE IF Lt(store[x], store[a[Len(a)]])
         THEN Append(LinearInsert(store, SubSeq(a, 1, Len(a) - 1), x),
                     a[Len(a)])
         ELSE Append(a, x)

RECURSIVE SortList(_, _)
\* list.sort(): stable, ordered by __lt__
SortList(store, a) ==
    IF a = <<>> THEN <<>>
    ELSE LinearInsert(store, SortList(store, SubSeq(a, 1, Len(a) - 1)),
                      a[Len(a)])

\* F applied to the value (the values) the evaluation has reached
Then(S, F(_)) == {F(t) : t \in S}

\* the value an evaluation has reached
The(S) == CHOOSE r \in S : TRUE

\* ------------------------------------------------------------------------
\* Python floats (IEEE 754 binary64, round to nearest even) as far as
\* Scheduler.run needs them: the quotient of two ints and the product of a
\* float and an int.  A float other than 0.0 is 1.m[2]m[3]...m[53] * 2^e
\* with m[1] = 1; the values here are far from the exponent limits.
\* ------------------------------------------------------------------------

MantissaBits == 53

Zero == [m |-> <<>>, e |-> 0]

Last(a) == a[Len(a)]
Front(a) == SubSeq(a, 1, Len(a) - 1)

RECURSIVE ExpUp(_, _, _)
\* the largest k >= e with b * 2^k <= a
ExpUp(a, b, e) == IF b * 2^(e + 1) <= a THEN ExpUp(a, b, e + 1) ELSE e

RECURSIVE ExpDown(_, _, _)
\* minus the smallest j >= k with a * 2^j >= b
ExpDown(a, b, k) == IF a * 2^k >= b THEN 0 - k ELSE ExpDown(a, b, k + 1)

RECURSIVE DivBits(_, _, _)
\* the next k binary digits of r / b, for 0 <= r < b
DivBits(r, b, k) ==
    IF k = 0 THEN <<>>
    ELSE IF 2 * r >= b THEN <<1>> \o DivBits(2 * r - b, b, k - 1)
         ELSE <<0>> \o DivBits(2 * r, b, k - 1)

RECURSIVE DivRem(_, _, _)
\* the remainder left after k binary digits of r / b
DivRem(r, b, k) ==
    IF k = 0 THEN r
    ELSE IF 2 * r >= b THEN DivRem(2 * r - b, b, k - 1)
         ELSE DivRem(2 * r, b, k - 1)

RECURSIVE Inc(_)
\* a binary numeral plus one, in the same number of digits
Inc(m) ==
    IF m = <<>> THEN <<>>
    ELSE IF Last(m) = 0 THEN Append(Front(m), 1)
         ELSE Append(Inc(Front(m)), 0)

\* round to nearest, ties to even: top holds the MantissaBits leading
\* digits, guard the digit after them, sticky whether any later digit is 1
Round(top, guard, sticky, e) ==
    IF guard = 1 /\ (sticky \/ Last(top) = 1)
    THEN IF \A k \in 1..Len(top) : top[k] = 1
         THEN [m |-> <<1>> \o [k \in 1..(Len(top) - 1) |-> 0], e |-> e + 1]
         ELSE [m |-> Inc(top), e |-> e]
    ELSE [m |-> top, e |-> e]

\* a / b of two ints, a >= 0 and b > 0 (true division)
FloatDiv(a, b) ==
    IF a = 0 THEN Zero
    ELSE LET e == IF a >= b THEN ExpUp(a, b, 0) ELSE ExpDown(a, b, 1)
             num == IF e >= 0 THEN a ELSE a * 2^(0 - e)
             den == IF e >= 0 THEN b * 2^e ELSE b
             r == DivRem(num - den, den, MantissaBits - 1)
             guard == IF 2 * r >= den THEN 1 ELSE 0
         IN Round(<<1>> \o DivBits(num - den, den, MantissaBits - 1),
                  guard, 2 * r - guard * den # 0, e)

\* a Python int
PyInt(k) == [int |-> k]

\* an int as a float (exact for the ints of a run)
FloatOfInt(a) == FloatDiv(a, 1)

RECURSIVE IntBits(_)
\* the binary numeral of an int >= 0, without leading zeros
IntBits(c) == IF c = 0 THEN <<>> ELSE Append(IntBits(c \div 2), c % 2)

RECURSIVE MulBits(_, _, _)
\* the binary numeral of m * n + c
MulBits(m, n, c) ==
    IF m = <<>> THEN IntBits(c)
    ELSE IF (Last(m) * n + c) % 2 = 0
         THEN Append(MulBits(Front(m), n, (Last(m) * n + c) \div 2), 0)
         ELSE Append(MulBits(Front(m), n, (Last(m) * n + c) \div 2), 1)

\* f * n of a float and an int n >= 0
FloatMulInt(f, n) ==
    IF f = Zero \/ n = 0 THEN Zero
    ELSE The({LET rest == SubSeq(p, MantissaBits + 1, Len(p))
              IN Round(SubSeq(p, 1, MantissaBits),
                       IF rest = <<>> THEN 0 ELSE rest[1],
                       \E k \in 2..Len(rest) : rest[k] = 1,
                       f.e + Len(p) - MantissaBits) :
                 p \in {MulBits(f.m, n, 0)}})

\* ------------------------------------------------------------------------
\* scheduler.py: construction
\* ------------------------------------------------------------------------

Policies == {"FIFO", "SJF", "RR", "SRTF"}

ProcInputs == [ex_time : 1..MaxExTime, arrival_time : 0..MaxArrival]

\* the scenario of the documentation: P1:5:0, P2:3:0, P3:8:0
Scenario ==
    <<[ex_time |-> 5, arrival_time |-> 0],
      [ex_time |-> 3, arrival_time |-> 0],
      [ex_time |-> 8, arrival_time |-> 0]>>

\* an input whose processes arrive at different times, out of input order
Staggered ==
    <<[ex_time |-> 2, arrival_time |-> 2],
      [ex_time |-> 3, arrival_time |-> 0],
      [ex_time |-> 1, arrival_time |-> 1]>>

\* an input with nothing to run at time 0 and a gap between the arrivals
LateArrivals ==
    <<[ex_time |-> 1, arrival_time |-> 1],
      [ex_time |-> 2, arrival_time |-> 3]>>

ListsUpTo(n) ==
    UNION {[1..k -> ProcInputs] : k \in 0..n}
       \cup {Scenario, Staggered, LateArrivals}

InputLists == ListsUpTo(MaxProcs)

N == Len(processes)
Pids == 1..N

\* Scheduler.__init__: partition the copies into runnable / waiting,
\* sort waiting
InitRunnable(inp) ==
    SelectSeq([i \in 1..Len(inp) |-> i], LAMBDA i : inp[i].arrival_time <= 0)

\* the constructor without self._waiting.sort()
InitWaitingUnsorted(inp, store) ==
    SelectSeq([i \in 1..Len(inp) |-> i],
              LAMBDA i : ~(inp[i].arrival_time <= 0))

InitWaiting(inp, store) ==
    SortList(store,
        SelectSeq([i \in 1..Len(inp) |-> i],
                  LAMBDA i : ~(inp[i].arrival_time <= 0)))

\* the copies the constructor makes of the input processes
NewProcs(inp) ==
    [i \in 1..Len(inp) |->
        Process(inp[i].ex_time, inp[i].arrival_time)]

\* runnable sorted after construction by every policy
NewRunnableSorted(pol, inp) == SortList(NewProcs(inp), InitRunnable(inp))

\* runnable after construction: SJF and SRTF sort it
NewRunnable(pol, inp) ==
    IF pol \in {"SJF", "SRTF"}
    THEN SortList(NewProcs(inp), InitRunnable(inp))
    ELSE InitRunnable(inp)

\* time slices a policy can be constructed with (0: the policy has none)
Slices(pol) == IF pol = "RR" THEN 1..MaxSlice ELSE {0}

\* self.stats = {}: keys holds the keys of the dictionary, the other fields
\* the values of the keys it has
NoStats ==
    [keys |-> {}, avg_comp_time |-> PyInt(0), avg_wait_time |-> PyInt(0),
     num_processes_ran |-> 0, title |-> "", time_slice |-> 0]

\* a new scheduler has not been run
NotRun == stats = NoStats /\ outcome = ""

\* no call of compare has begun
NotComparing == [pc |-> "idle", i |-> 0, nvis |-> 0, shown |-> 0]

\* one scheduler only: no further object, no comparison
Single ==
    /\ heap = <<>>
    /\ schedulers = <<>>
    /\ cmp = NotComparing
    /\ history = <<>>

\* the observer fields of a new scheduler: verbose has its default value 1
\* and no listener is registered; no step has been taken
NoObservers ==
    /\ verbose = 1
    /\ step_end_listeners = <<>>
    /\ process_done_listeners = <<>>
    /\ process_arrive_listeners = <<>>
    /\ events = <<>>

Init ==
    /\ policy \in Policies
    /\ time_slice \in Slices(policy)
    /\ processes \in InputLists
    /\ proc = NewProcs(processes)
    /\ runnable = NewRunnable(policy, processes)
    /\ waiting = InitWaiting(processes, proc)
    /\ done_processes = <<>>
    /\ time = 0
    /\ curr_process = 0
    /\ step_time_ran = 0
    /\ time_leftover = 0
    /\ asserts_ok = TRUE
    /\ quanta = 0
    /\ nsteps = 0
    /\ NoObservers
    /\ NotRun
    /\ Single

\* ------------------------------------------------------------------------
\* scheduler.py: shared machinery.  A scheduler state s is a record of the
\* fields a step changes.
\* ------------------------------------------------------------------------

State ==
    [policy |-> policy, time_slice |-> time_slice, verbose |-> verbose,
     step_end_listeners |-> step_end_listeners,
     process_done_listeners |-> process_done_listeners,
     process_arrive_listeners |-> process_arrive_listeners,
     proc |-> proc, runnable |-> runnable, waiting |-> waiting,
     done |-> done_processes, time |-> time, curr |-> curr_process,
     ran |-> step_time_ran, leftover |-> 0, ok |-> asserts_ok,
     events |-> <<>>]

\* Scheduler.is_done
is_done == Len(runnable) = 0 /\ Len(waiting) = 0

\* one entry of the record of a step: what happened (ev), to which process
\* (who, 0: none) and, for a listener call, which listener (fn, 0: none)
Event(e, w, f) == [ev |-> e, who |-> w, fn |-> f]

Did(s, e, w) == [s EXCEPT !.events = Append(@, Event(e, w, 0))]

\* for listener in listeners: listener(self._curr_process, self)
CallAll(s, hook, listeners) ==
    [s EXCEPT !.events =
        @ \o [i \in 1..Len(listeners) |-> Event(hook, s.curr, listeners[i])]]

\* add_runnable putting the process at the front of runnable
AddRunnableFront(s, p) == [s EXCEPT !.runnable = <<p>> \o @]

\* add_runnable of the four subclasses
AddRunnable(s, p) ==
    IF s.policy \in {"FIFO", "RR"}
    THEN [s EXCEPT !.runnable = Append(@, p)]
    ELSE [s EXCEPT !.runnable = Insort(s.proc, @, p)]

\* the stall without the clock advance
StallNoClock(s) ==
    IF Len(s.runnable) = 0 /\ Len(s.waiting) > 0
    THEN LET next_process == Head(s.waiting)
         IN Did(AddRunnable(
                  [s EXCEPT !.waiting = Tail(@),
                            !.proc[next_process].arrival_time = 0],
                  next_process),
                "stall", next_process)
    ELSE s

\* Scheduler.get_next_process: the stall for the head of waiting
Stall(s) ==
    IF Len(s.runnable) = 0 /\ Len(s.waiting) > 0
    THEN LET next_process == Head(s.waiting)
             stall_time == s.proc[next_process].arrival_time
         IN Did(AddRunnable(
                  [s EXCEPT !.waiting = Tail(@),
                            !.proc[next_process].arrival_time = 0,
                            !.time = @ + stall_time],
                  next_process),
                "stall", next_process)
    ELSE s

\* get_next_process taking the last runnable process instead of the first
GetNextProcessLast(s) ==
    LET s1 == Stall(s)
    IN [s1 EXCEPT !.curr = s1.runnable[Len(s1.runnable)],
                  !.runnable = SubSeq(s1.runnable, 1, Len(s1.runnable) - 1)]

\* get_next_process of the subclasses: stall, then pop runnable[0]
GetNextProcess(s) ==
    LET s1 == Stall(s)
    IN [s1 EXCEPT !.curr = Head(s1.runnable), !.runnable = Tail(s1.runnable)]

\* self._step_time_ran, time_leftover = self._curr_process.run(ex_time)
RunCurr(s, ex_time) ==
    LET r == ProcRun(s.proc[s.curr], ex_time)
    IN [s EXCEPT !.proc[s.curr] = r.p, !.ran = r.time_ran,
                 !.leftover = r.time_leftover, !.ok = @ /\ r.ok,
                 !.events = Append(@, Event("run", s.curr, 0))]

\* assert time_leftover == 0 of the FIFO and SJF steps
AssertNoLeftover(s) == [s EXCEPT !.ok = @ /\ s.leftover = 0]

\* _on_step_end calling the listeners at verbose 1 too
OnStepEndFromOne(s) ==
    IF s.verbose <= 0 THEN s
    ELSE CallAll(s, "step_end", s.step_end_listeners)

\* Scheduler._on_step_end
OnStepEnd(s) ==
    IF s.verbose <= 1 THEN s
    ELSE CallAll(s, "step_end", s.step_end_listeners)

\* Scheduler._on_process_done: append the current process to done, then
\* call the listeners
OnProcessDone(s) ==
    LET s1 == Did([s EXCEPT !.done = Append(@, s.curr)], "done", s.curr)
    IN IF s.verbose <= 0 THEN s1
       ELSE CallAll(s1, "process_done", s.process_done_listeners)

\* Scheduler._on_process_arrive (no statement of scheduler.py calls it)
OnProcessArrive(s) ==
    IF s.verbose <= 1 THEN s
    ELSE CallAll(s, "process_arrive", s.process_arrive_listeners)

\* a wait loop over the done processes as well as the runnable ones
WaitRunnableAndDone(s) ==
    [s EXCEPT !.proc = [i \in DOMAIN s.proc |->
        IF \/ \E k \in 1..Len(s.runnable) : s.runnable[k] = i
           \/ \E k \in 1..Len(s.done) : s.done[k] = i
        THEN ProcWait(s.proc[i], s.ran)
        ELSE s.proc[i]],
              !.ok = @ /\ s.ran >= 0,
              !.events = Append(@, Event("wait", 0, 0))]

\* for process in self.runnable: process.wait(step_time_ran)
WaitRunnable(s) ==
    [s EXCEPT !.proc = [i \in DOMAIN s.proc |->
        IF \E k \in 1..Len(s.runnable) : s.runnable[k] = i
        THEN ProcWait(s.proc[i], s.ran)
        ELSE s.proc[i]],
              !.ok = @ /\ s.ran >= 0,
              !.events = Append(@, Event("wait", 0, 0))]

\* the clock set to the quantum instead of advanced by it
AdvanceClockAssign(s) ==
    [s EXCEPT !.time = s.ran, !.events = Append(@, Event("clock", 0, 0))]

\* self.time += self.step_time_ran
AdvanceClock(s) ==
    [s EXCEPT !.time = @ + s.ran,
              !.events = Append(@, Event("clock", 0, 0))]

\* the body of the loop dropping the last waiting process on an arrival
\* (self._waiting = self._waiting[:-1])
PromoteOneDropLast(s, process) ==
    LET p == ProcWaitArrival(s.proc[process], s.ran)
        s1 == [s EXCEPT !.proc[process] = p,
                        !.ok = @ /\ WaitArrivalAsserts(s.proc[process],
                                                       s.ran)]
    IN IF p.arrival_time = 0
       THEN Did([AddRunnable(s1, process) EXCEPT
                    !.waiting = SubSeq(@, 1, Len(@) - 1)],
                "arrive", process)
       ELSE s1

\* the body of the loop over waiting: wait_arrival, and on arrival
\* add_runnable(process) and self._waiting = self._waiting[1:]
PromoteOne(s, process) ==
    LET p == ProcWaitArrival(s.proc[process], s.ran)
        s1 == [s EXCEPT !.proc[process] = p,
                        !.ok = @ /\ WaitArrivalAsserts(s.proc[process],
                                                       s.ran)]
    IN IF p.arrival_time = 0
       THEN Did([AddRunnable(s1, process) EXCEPT !.waiting = Tail(@)],
                "arrive", process)
       ELSE s1

RECURSIVE PromoteLoop(_, _, _)
\* for process in self.waiting: the loop walks the list object it started
\* on (iter) while the body rebinds self._waiting; each pass works on the
\* state the pass before it left (t)
PromoteLoop(s, iter, k) ==
    IF k > Len(iter) THEN s
    ELSE CHOOSE r \in {PromoteLoop(t, iter, k + 1) :
                          t \in {PromoteOne(s, iter[k])}} : TRUE

\* the promotion loop run after an advance of the clock
PromoteWaitingAfterClock(s) ==
    CHOOSE r \in {PromoteLoop(t, s.waiting, 1) :
                     t \in {Did(AdvanceClock(s), "promote", 0)}} : TRUE

PromoteWaiting(s) ==
    CHOOSE r \in {PromoteLoop(t, s.waiting, 1) :
                     t \in {Did(s, "promote", 0)}} : TRUE

\* the end of a preemptive step without the requeue
DoneOrRequeueDrop(s) ==
    IF proc_is_done(s.proc[s.curr])
    THEN OnProcessDone(s)
    ELSE s

\* if curr_process.is_done: _on_process_done() else add_runnable(curr)
DoneOrRequeue(s) ==
    IF proc_is_done(s.proc[s.curr])
    THEN OnProcessDone(s)
    ELSE Did(AddRunnable(s, s.curr), "requeue", s.curr)

\* SRTF quantum clipped whenever the head of waiting arrives before the
\* current process would finish
SRTFQuantumArrivalOnly(s) ==
    LET curr_left == time_left(s.proc[s.curr])
    IN IF Len(s.waiting) > 0
       THEN LET first_waiting == s.proc[Head(s.waiting)]
            IN IF curr_left > first_waiting.arrival_time
               THEN first_waiting.arrival_time
               ELSE curr_left
       ELSE curr_left

\* SRTFScheduler.step: the quantum
SRTFQuantum(s) ==
    LET curr_left == time_left(s.proc[s.curr])
    IN IF Len(s.waiting) > 0
       THEN LET first_waiting == s.proc[Head(s.waiting)]
                wait_comp_time == first_waiting.arrival_time
                                    + time_left(first_waiting)
            IN IF curr_left > wait_comp_time
               THEN first_waiting.arrival_time
               ELSE curr_left
       ELSE curr_left

\* ------------------------------------------------------------------------
\* scheduler.py: the four step() methods, one iteration of the loop of
\* Scheduler.run each (while not self.is_done: self.step()).  The
\* statements of a step are applied in the order of the code, each to the
\* state the statement before it left.
\* ------------------------------------------------------------------------

\* the assignments a step has made when it returns
Commit(s) ==
    /\ proc' = s.proc
    /\ runnable' = s.runnable
    /\ waiting' = s.waiting
    /\ done_processes' = s.done
    /\ time' = s.time
    /\ curr_process' = s.curr
    /\ step_time_ran' = s.ran
    /\ time_leftover' = s.leftover
    /\ asserts_ok' = s.ok
    /\ events' = s.events
    /\ quanta' = quanta + s.ran
    /\ nsteps' = nsteps + 1
    /\ UNCHANGED <<policy, time_slice, processes, observers, results,
                   several>>

\* the body with a run of one time unit (curr_process.run(1))
RunToCompletionSliced(s0) ==
    The(Then(Then(Then(Then(Then(Then(Then({s0},
        GetNextProcess),
        LAMBDA s : AssertNoLeftover(RunCurr(s, 1))),
        OnStepEnd),
        OnProcessDone),
        AdvanceClock),
        WaitRunnable),
        PromoteWaiting))

\* the body FIFOScheduler.step and SJFScheduler.step share
RunToCompletion(s0) ==
    The(Then(Then(Then(Then(Then(Then(Then({s0},
        GetNextProcess),
        LAMBDA s : AssertNoLeftover(RunCurr(s, s.proc[s.curr].ex_time))),
        OnStepEnd),
        OnProcessDone),
        AdvanceClock),
        WaitRunnable),
        PromoteWaiting))

\* the body with the requeue ahead of the arrival promotion
RoundRobinRequeueFirst(s0) ==
    The(Then(Then(Then(Then(Then(Then(Then({s0},
        GetNextProcess),
        LAMBDA s : RunCurr(s, s.time_slice)),
        OnStepEnd),
        DoneOrRequeue),
        WaitRunnable),
        PromoteWaiting),
        AdvanceClock))

\* the body of RoundRobinScheduler.step
RoundRobin(s0) ==
    The(Then(Then(Then(Then(Then(Then(Then({s0},
        GetNextProcess),
        LAMBDA s : RunCurr(s, s.time_slice)),
        OnStepEnd),
        WaitRunnable),
        PromoteWaiting),
        DoneOrRequeue),
        AdvanceClock))

\* the body with the quantum always cut at the arrival of the head of
\* waiting
ShortestRemainingUntilArrival(s0) ==
    The(Then(Then(Then(Then(Then(Then(Then({s0},
        GetNextProcess),
        LAMBDA s : RunCurr(s, IF Len(s.waiting) > 0
                              THEN s.proc[Head(s.waiting)].arrival_time
                              ELSE time_left(s.proc[s.curr]))),
        OnStepEnd),
        WaitRunnable),
        PromoteWaiting),
        DoneOrRequeue),
        AdvanceClock))

\* the body of SRTFScheduler.step
ShortestRemaining(s0) ==
    The(Then(Then(Then(Then(Then(Then(Then({s0},
        GetNextProcess),
        LAMBDA s : RunCurr(s, SRTFQuantum(s))),
        OnStepEnd),
        WaitRunnable),
        PromoteWaiting),
        DoneOrRequeue),
        AdvanceClock))

\* FIFOScheduler.step
FIFOStep ==
    /\ policy = "FIFO"
    /\ ~is_done
    /\ asserts_ok
    /\ \E s \in {RunToCompletion(State)} : Commit(s)

\* SJFScheduler.step
SJFStep ==
    /\ policy = "SJF"
    /\ ~is_done
    /\ asserts_ok
    /\ \E s \in {RunToCompletion(State)} : Commit(s)

\* RoundRobinScheduler.step
RoundRobinStep ==
    /\ policy = "RR"
    /\ ~is_done
    /\ asserts_ok
    /\ \E s \in {RoundRobin(State)} : Commit(s)

\* SRTFScheduler.step
SRTFStep ==
    /\ policy = "SRTF"
    /\ ~is_done
    /\ asserts_ok
    /\ \E s \in {ShortestRemaining(State)} : Commit(s)

Next == FIFOStep \/ SJFStep \/ RoundRobinStep \/ SRTFStep

Spec == Init /\ [][Next]_vars

\* The fields as the first lines of Scheduler.__init__ set them, before the
\* input processes are sorted into the lists (policy "none": no subclass
\* constructor has run yet)
PreInit ==
    /\ policy = "none"
    /\ time_slice = 0
    /\ processes = <<>>
    /\ proc = <<>>
    /\ runnable = <<>>
    /\ waiting = <<>>
    /\ done_processes = <<>>
    /\ time = 0
    /\ curr_process = 0
    /\ step_time_ran = 0
    /\ time_leftover = 0
    /\ asserts_ok = TRUE
    /\ quanta = 0
    /\ nsteps = 0
    /\ NoObservers
    /\ NotRun
    /\ Single

\* the constructor of a policy called on one of the input lists inputs with
\* one of the verbose arguments levels
ConstructWith(inputs, levels) ==
    /\ policy = "none"
    /\ \E pol \in Policies : \E ts \in Slices(pol) : \E inp \in inputs :
          /\ policy' = pol
          /\ time_slice' = ts
          /\ processes' = inp
          /\ proc' = NewProcs(inp)
          /\ runnable' = NewRunnable(pol, inp)
          /\ waiting' = InitWaiting(inp, NewProcs(inp))
    /\ verbose' \in levels
    /\ UNCHANGED <<done_processes, time, curr_process, step_time_ran,
                   time_leftover,
                   asserts_ok, quanta, nsteps, step_end_listeners,
                   process_done_listeners, process_arrive_listeners, events,
                   results, several>>

\* the constructor with the default verbose argument
Construct == ConstructWith(ListsUpTo(MaxRunProcs), {1})

\* construction followed by run(): its loop keeps calling step() while the
\* scheduler is not done
RunSpec == PreInit /\ [][Construct \/ Next]_vars /\ WF_vars(Next)

\* ------------------------------------------------------------------------
\* scheduler.py: the observers.  A scheduler is constructed with any of the
\* verbose levels of the docstring, listeners are registered and verbose is
\* set at any time between the steps.  The k-th function registered on a
\* hook is named k.
\* ------------------------------------------------------------------------

Verbosity == {0, 1, 2}

ObsConstruct == ConstructWith(ListsUpTo(MaxObsProcs), Verbosity)

ObsFrame ==
    UNCHANGED <<policy, time_slice, processes, proc, runnable, waiting,
                done_processes, time, curr_process, step_time_ran,
                time_leftover,
                asserts_ok, quanta, nsteps, events, results, several>>

\* Scheduler.register_step_listener
RegisterStepListener ==
    /\ policy # "none"
    /\ Len(step_end_listeners) < MaxListeners
    /\ step_end_listeners' =
          Append(step_end_listeners, Len(step_end_listeners) + 1)
    /\ UNCHANGED <<verbose, process_done_listeners, process_arrive_listeners>>
    /\ ObsFrame

\* Scheduler.register_process_done_listener
RegisterProcessDoneListener ==
    /\ policy # "none"
    /\ Len(process_done_listeners) < MaxListeners
    /\ process_done_listeners' =
          Append(process_done_listeners, Len(process_done_listeners) + 1)
    /\ UNCHANGED <<verbose, step_end_listeners, process_arrive_listeners>>
    /\ ObsFrame

\* Scheduler.register_process_arrive_listener
RegisterProcessArriveListener ==
    /\ policy # "none"
    /\ Len(process_arrive_listeners) < MaxListeners
    /\ process_arrive_listeners' =
          Append(process_arrive_listeners, Len(process_arrive_listeners) + 1)
    /\ UNCHANGED <<verbose, step_end_listeners, process_done_listeners>>
    /\ ObsFrame

\* the setter of Scheduler.verbose
SetVerbose ==
    /\ policy # "none"
    /\ \E value \in Verbosity \ {verbose} : verbose' = value
    /\ UNCHANGED <<step_end_listeners, process_done_listeners,
                   process_arrive_listeners>>
    /\ ObsFrame

ObsNext ==
    \/ ObsConstruct
    \/ RegisterStepListener
    \/ RegisterProcessDoneListener
    \/ RegisterProcessArriveListener
    \/ SetVerbose
    \/ Next

ObserverSpec == PreInit /\ [][ObsNext]_vars

\* ------------------------------------------------------------------------
\* scheduler.py: run() after its loop has ended.
\* ------------------------------------------------------------------------

RECURSIVE SumCompletion(_, _)
\* the sum of process.completion_time over a list of processes
SumCompletion(store, a) ==
    IF a = <<>> THEN 0
    ELSE store[Head(a)].comp_time + SumCompletion(store, Tail(a))

RECURSIVE SumWait(_, _)
\* the sum of process.wait_time over a list of processes
SumWait(store, a) ==
    IF a = <<>> THEN 0
    ELSE store[Head(a)].wait_time + SumWait(store, Tail(a))

\* the tally with wait_time added to avg_comp_time too
TallyWaitOnly(s) ==
    [stats |-> [NoStats EXCEPT
                   !.keys = {"avg_comp_time", "avg_wait_time",
                             "num_processes_ran"},
                   !.avg_comp_time = PyInt(SumWait(s.proc, s.done)),
                   !.avg_wait_time = PyInt(SumWait(s.proc, s.done)),
                   !.num_processes_ran = Len(s.done)],
     outcome |-> IF \A k \in 1..Len(s.done) : proc_is_done(s.proc[s.done[k]])
                 THEN "" ELSE "AssertionError"]

\* Scheduler.run: the new stats dictionary and the loop over done_processes
\* that adds up two ints and counts (the completion_time getter asserts
\* that the process is done)
Tally(s) ==
    [stats |-> [NoStats EXCEPT
                   !.keys = {"avg_comp_time", "avg_wait_time",
                             "num_processes_ran"},
                   !.avg_comp_time = PyInt(SumCompletion(s.proc, s.done)),
                   !.avg_wait_time = PyInt(SumWait(s.proc, s.done)),
                   !.num_processes_ran = Len(s.done)],
     outcome |-> IF \A k \in 1..Len(s.done) : proc_is_done(s.proc[s.done[k]])
                 THEN "" ELSE "AssertionError"]

\* the two divisions skipped when no process ran
AveragesGuarded(t) ==
    IF t.outcome # "" \/ t.stats.num_processes_ran = 0 THEN t
    ELSE [t EXCEPT
             !.stats.avg_comp_time =
                 FloatDiv(@.int, t.stats.num_processes_ran),
             !.stats.avg_wait_time =
                 FloatDiv(@.int, t.stats.num_processes_ran)]

\* Scheduler.run: the two divisions by num_processes_ran
Averages(t) ==
    IF t.outcome # "" THEN t
    ELSE IF t.stats.num_processes_ran = 0
    THEN [t EXCEPT !.outcome = "ZeroDivisionError"]
    ELSE [t EXCEPT
             !.stats.avg_comp_time =
                 FloatDiv(@.int, t.stats.num_processes_ran),
             !.stats.avg_wait_time =
                 FloatDiv(@.int, t.stats.num_processes_ran)]

\* the title a policy gives its statistics
Title(s) ==
    CASE s.policy = "FIFO" -> "FIFO"
      [] s.policy = "SJF" -> "SJF"
      [] s.policy = "SRTF" -> "SRTF"
      [] s.policy = "RR" -> "R.R. (" \o ToString(s.time_slice) \o ")"

\* run() of the four subclasses after super().run(): the title, and the
\* time_slice of Round-Robin
Titled(s, t) ==
    IF t.outcome # "" THEN t
    ELSE [stats |-> [t.stats EXCEPT
                        !.keys = @ \cup {"title"} \cup
                                 (IF s.policy = "RR" THEN {"time_slice"}
                                  ELSE {}),
                        !.title = Title(s),
                        !.time_slice =
                            IF s.policy = "RR" THEN s.time_slice ELSE 0],
          outcome |-> "returned"]

\* run() once its loop has found the scheduler done
FinishRun ==
    /\ policy # "none"
    /\ is_done
    /\ asserts_ok
    /\ outcome = ""
    /\ \E s \in {State} : \E t \in {Tally(s)} : \E u \in {Averages(t)} :
       \E r \in {Titled(s, u)} :
          /\ stats' = r.stats
          /\ outcome' = r.outcome
    /\ UNCHANGED <<policy, time_slice, processes, proc, runnable, waiting,
                   done_processes, time, curr_process, step_time_ran,
                   time_leftover,
                   asserts_ok, quanta, nsteps, observers, events, several>>

\* seven processes whose completion times under FIFO are 1, 2, ..., 6, 8
Seven ==
    [i \in 1..7 |->
        [ex_time |-> IF i = 7 THEN 2 ELSE 1, arrival_time |-> 0]]

StatConstruct == ConstructWith(ListsUpTo(MaxStatProcs) \cup {Seven}, {1})

\* construction, then run(): the steps of its loop, then the statistics
StatsSpec == PreInit /\ [][StatConstruct \/ Next \/ FinishRun]_vars

\* ------------------------------------------------------------------------
\* Several schedulers built from one list of Process objects.  A Process
\* object is an index of heap; the caller's list is the objects 1..N, with
\* the values of processes when they were made.  The lists of a scheduler
\* hold objects, and a step changes the objects its lists hold.
\* ------------------------------------------------------------------------

\* the caller's list
InputObjects == [i \in 1..N |-> i]

\* the constructor keeping the caller's objects in its lists
NoCopy(h, inputs) == [heap |-> h, refs |-> inputs]

\* Scheduler.__init__: deepcopy(process) of each process of the list; refs
\* are the new objects in the order of the list
DeepCopy(h, inputs) ==
    [heap |-> h \o [i \in 1..Len(inputs) |-> h[inputs[i]]],
     refs |-> [i \in 1..Len(inputs) |-> Len(h) + i]]

\* the constructor of policy pol (with time_slice ts) on the list inputs:
\* the objects there are afterwards and the new scheduler
NewScheduler(h, inputs, pol, ts) ==
    The({LET arrived == SelectSeq(c.refs,
                           LAMBDA o : c.heap[o].arrival_time <= 0)
             later == SelectSeq(c.refs,
                           LAMBDA o : ~(c.heap[o].arrival_time <= 0))
         IN [heap |-> c.heap,
             inst |->
               [policy |-> pol, time_slice |-> ts, verbose |-> 1,
                step_end_listeners |-> <<>>,
                process_done_listeners |-> <<>>,
                process_arrive_listeners |-> <<>>,
                proc |-> <<>>,
                runnable |-> IF pol \in {"SJF", "SRTF"}
                             THEN SortList(c.heap, arrived) ELSE arrived,
                waiting |-> SortList(c.heap, later),
                done |-> <<>>, time |-> 0, curr |-> 0, ran |-> 0,
                leftover |-> 0, ok |-> TRUE, events |-> <<>>,
                stats |-> NoStats, outcome |-> "", refs |-> c.refs]] :
            c \in {DeepCopy(h, inputs)}})

\* a scheduler at the start of one of its methods, with the objects as they
\* are
Load(inst, h) == [inst EXCEPT !.proc = h, !.events = <<>>, !.leftover = 0]

\* the scheduler a method leaves (the objects are kept in heap)
Store(s) == [s EXCEPT !.proc = <<>>]

Idle(s) == Len(s.runnable) = 0 /\ Len(s.waiting) = 0

\* step() of the class of the scheduler
StepOf(s) ==
    CASE s.policy \in {"FIFO", "SJF"} -> RunToCompletion(s)
      [] s.policy = "RR" -> RoundRobin(s)
      [] s.policy = "SRTF" -> ShortestRemaining(s)

RECURSIVE RunLoop(_)
\* Scheduler.run: while not self.is_done: self.step()
RunLoop(s) ==
    IF Idle(s) \/ ~s.ok THEN s
    ELSE The({RunLoop(t) : t \in {StepOf(s)}})

\* run() of the class of the scheduler
RunOf(s0) ==
    The({[s EXCEPT !.stats = r.stats, !.outcome = r.outcome] :
            <<s, r>> \in {<<d, Titled(d, Averages(Tally(d)))>> :
                             d \in {RunLoop(s0)}}})

\* no scheduler is built and nothing is compared yet; the caller has made
\* its list of processes
ListMade(lists) ==
    /\ processes \in lists
    /\ heap = NewProcs(processes)
    /\ schedulers = <<>>
    /\ cmp = NotComparing
    /\ history = <<>>
    /\ policy = "none"
    /\ time_slice = 0
    /\ proc = <<>>
    /\ runnable = <<>>
    /\ waiting = <<>>
    /\ done_processes = <<>>
    /\ time = 0
    /\ curr_process = 0
    /\ step_time_ran = 0
    /\ time_leftover = 0
    /\ asserts_ok = TRUE
    /\ quanta = 0
    /\ nsteps = 0
    /\ NoObservers
    /\ NotRun

\* what the methods of the schedulers built from the list leave alone
OneFrame ==
    UNCHANGED <<policy, time_slice, processes, proc, runnable, waiting,
                done_processes, time, curr_process, step_time_ran,
                time_leftover,
                asserts_ok, quanta, nsteps, observers, events, results>>

\* two schedulers are built from the list, one after the other
NewPair ==
    /\ schedulers = <<>>
    /\ \E p1, p2 \in Policies : \E t1 \in Slices(p1) : \E t2 \in Slices(p2) :
       \E a \in {NewScheduler(heap, InputObjects, p1, t1)} :
       \E b \in {NewScheduler(a.heap, InputObjects, p2, t2)} :
          /\ heap' = b.heap
          /\ schedulers' = <<a.inst, b.inst>>
    /\ UNCHANGED <<cmp, history>>
    /\ OneFrame

\* step() of one of the schedulers
StepAny ==
    /\ \E k \in 1..Len(schedulers) :
          /\ ~Idle(schedulers[k])
          /\ schedulers[k].ok
          /\ \E s \in {StepOf(Load(schedulers[k], heap))} :
                /\ heap' = s.proc
                /\ schedulers' = [schedulers EXCEPT ![k] = Store(s)]
    /\ UNCHANGED <<cmp, history>>
    /\ OneFrame

ShareInit == ListMade(ListsUpTo(MaxShareProcs))

\* two schedulers built from one list, stepped in any interleaving
ShareSpec == ShareInit /\ [][NewPair \/ StepAny]_vars

\* ------------------------------------------------------------------------
\* simulator.py: Simulator.compare(schedulers, visuals) on the schedulers
\* built from the list, in the order they were built.  An entry of history
\* is the stats dictionary of a scheduler (the same object), so it is kept
\* as the place of that scheduler in the list.
\* ------------------------------------------------------------------------

\* one more scheduler is built from the list
NewOne ==
    /\ cmp.pc = "idle"
    /\ Len(schedulers) < MaxScheds
    /\ \E pol \in Policies : \E ts \in Slices(pol) :
       \E n \in {NewScheduler(heap, InputObjects, pol, ts)} :
          /\ heap' = n.heap
          /\ schedulers' = Append(schedulers, n.inst)
    /\ UNCHANGED <<cmp, history>>
    /\ OneFrame

\* compare is called: assert len(schedulers) > 0; history = {}
CompareCall ==
    /\ cmp.pc = "idle"
    /\ \E nv \in 0..MaxVisuals :
          cmp' = [pc |-> IF Len(schedulers) > 0 THEN "running"
                         ELSE "AssertionError",
                  i |-> 0, nvis |-> nv, shown |-> 0]
    /\ history' = <<>>
    /\ UNCHANGED <<heap, schedulers>>
    /\ OneFrame

\* an entry kept when its title is already in history
HistoryPutIfAbsent(h, title, k) ==
    [t \in DOMAIN h \cup {title} |-> IF t \in DOMAIN h THEN h[t] ELSE k]

\* history[title] = stats
HistoryPut(h, title, k) ==
    [t \in DOMAIN h \cup {title} |-> IF t = title THEN k ELSE h[t]]

\* stats.pop('title')
PopTitle(st) == [st EXCEPT !.keys = @ \ {"title"}, !.title = ""]

\* one pass of the loop over schedulers: stats = scheduler.run(), the title
\* taken out of it, the entry of history; an exception of run() ends compare
CompareRun ==
    /\ cmp.pc = "running"
    /\ cmp.i < Len(schedulers)
    /\ \E k \in {cmp.i + 1} : \E s \in {RunOf(Load(schedulers[k], heap))} :
          /\ heap' = s.proc
          /\ IF s.outcome = "returned"
             THEN /\ schedulers' =
                        [schedulers EXCEPT
                            ![k] = [Store(s) EXCEPT !.stats = PopTitle(@)]]
                  /\ history' = HistoryPut(history, s.stats.title, k)
                  /\ cmp' = [cmp EXCEPT !.i = k]
             ELSE /\ schedulers' = [schedulers EXCEPT ![k] = Store(s)]
                  /\ history' = history
                  /\ cmp' = [cmp EXCEPT !.pc = s.outcome]
    /\ OneFrame

\* one pass of the loop over visuals: visual(history)
CompareVisual ==
    /\ cmp.pc = "running"
    /\ cmp.i = Len(schedulers)
    /\ cmp.shown < cmp.nvis
    /\ cmp' = [cmp EXCEPT !.shown = @ + 1]
    /\ UNCHANGED <<heap, schedulers, history>>
    /\ OneFrame

\* return history
CompareReturn ==
    /\ cmp.pc = "running"
    /\ cmp.i = Len(schedulers)
    /\ cmp.shown = cmp.nvis
    /\ cmp' = [cmp EXCEPT !.pc = "returned"]
    /\ UNCHANGED <<heap, schedulers, history>>
    /\ OneFrame

CompareInit == ListMade(ListsUpTo(MaxCmpProcs))

CompareNext ==
    \/ NewOne
    \/ CompareCall
    \/ CompareRun
    \/ CompareVisual
    \/ CompareReturn

CompareSpec == CompareInit /\ [][CompareNext]_vars

\* ------------------------------------------------------------------------
\* helpers of the properties
\* ------------------------------------------------------------------------

AllArriveAtZero == \A i \in Pids : processes[i].arrival_time = 0

InDone(i) == \E k \in 1..Len(done_processes) : done_processes[k] = i

RECURSIVE SumExTime(_)
\* sum of ex_time over a list of process indices
SumExTime(a) ==
    IF a = <<>> THEN 0
    ELSE processes[Head(a)].ex_time + SumExTime(Tail(a))

RECURSIVE SumProcessed(_)
\* sum of processed_time over the first n processes of the store
SumProcessed(n) ==
    IF n = 0 THEN 0 ELSE proc[n].processed_time + SumProcessed(n - 1)

\* ------------------------------------------------------------------------
\* properties
\* ------------------------------------------------------------------------

\* C1: every process in the done list has completion_time = wait_time +
\* processed_time and processed_time = ex_time, in every reachable state
\* of every policy.
C1_DoneAccounting ==
    \A k \in 1..Len(done_processes) :
        LET p == proc[done_processes[k]]
        IN /\ p.comp_time = p.wait_time + p.processed_time
           /\ p.processed_time = p.ex_time

\* a finished process that waited in runnable and one that waited for its
\* arrival
C1_Witness ==
    /\ \E k \in 1..Len(done_processes) :
          /\ proc[done_processes[k]].wait_time > 0
          /\ processes[done_processes[k]].arrival_time > 0
    /\ Len(done_processes) >= 2

\* C2: the loop of run() terminates, and when it has stopped runnable and
\* waiting are empty and done holds every input process exactly once.
C2_DoneHoldsAll ==
    /\ Len(done_processes) = N
    /\ \A i \in Pids : InDone(i)

C2_Terminates ==
    /\ (policy # "none") ~> is_done
    /\ []((policy # "none" /\ is_done) => C2_DoneHoldsAll)

\* a finished run of several processes in which a process was requeued
C2_Witness ==
    /\ is_done
    /\ N >= 2
    /\ nsteps > N
    /\ \E i \in Pids : processes[i].arrival_time > 0

\* C3: at the end of the step in which p finishes, the clock equals p's
\* original arrival time plus p's completion_time.
C3_FinishClock ==
    (curr_process # 0 /\ InDone(curr_process))
        => time = processes[curr_process].arrival_time
                    + proc[curr_process].comp_time

\* C4: FIFO on an input whose arrival times are all 0 finishes the
\* processes in input order, the i-th with completion_time ex_1 + .. + ex_i
\* and wait_time ex_1 + .. + ex_(i-1); the documented scenario ends with
\* completion times 5, 8, 16 and wait times 0, 5, 8.
C4_FIFOPrefixSums ==
    (policy = "FIFO" /\ AllArriveAtZero) =>
        /\ done_processes = [k \in 1..Len(done_processes) |-> k]
        /\ \A i \in 1..Len(done_processes) :
              /\ proc[i].comp_time = SumExTime([k \in 1..i |-> k])
              /\ proc[i].wait_time = SumExTime([k \in 1..(i - 1) |-> k])
        /\ (processes = Scenario /\ is_done) =>
              /\ <<proc[1].comp_time, proc[2].comp_time, proc[3].comp_time>>
                    = <<5, 8, 16>>
              /\ <<proc[1].wait_time, proc[2].wait_time, proc[3].wait_time>>
                    = <<0, 5, 8>>

C4_Witness ==
    /\ policy = "FIFO"
    /\ processes = Scenario
    /\ is_done
    /\ Len(done_processes) = 3

\* C5: SJF on an input whose arrival times are all 0 finishes the
\* processes in non-decreasing ex_time order, equal ex_time in input order,
\* one per step, with completion_time the prefix sum of ex_time over that
\* order; the documented scenario runs P2, P1, P3 with completion times
\* 3, 8, 16 and wait times 0, 3, 8.
C5_SJFOrder ==
    (policy = "SJF" /\ AllArriveAtZero) =>
        /\ nsteps = Len(done_processes)
        /\ \A j, k \in 1..Len(done_processes) :
              j < k =>
                 LET a == done_processes[j]
                     b == done_processes[k]
                 IN /\ processes[a].ex_time <= processes[b].ex_time
                    /\ processes[a].ex_time = processes[b].ex_time => a < b
        /\ \A k \in 1..Len(done_processes) : \A i \in Pids :
              ~InDone(i) =>
                 processes[done_processes[k]].ex_time <= processes[i].ex_time
        /\ \A k \in 1..Len(done_processes) :
              LET p == proc[done_processes[k]]
              IN /\ p.comp_time = SumExTime(SubSeq(done_processes, 1, k))
                 /\ p.wait_time = SumExTime(SubSeq(done_processes, 1, k - 1))
        /\ (processes = Scenario /\ is_done) =>
              /\ done_processes = <<2, 1, 3>>
              /\ <<proc[2].comp_time, proc[1].comp_time, proc[3].comp_time>>
                    = <<3, 8, 16>>
              /\ <<proc[2].wait_time, proc[1].wait_time, proc[3].wait_time>>
                    = <<0, 3, 8>>

C5_Witness ==
    /\ policy = "SJF"
    /\ processes = Scenario
    /\ is_done
    /\ done_processes = <<2, 1, 3>>
\* the process the next step selects, and the waiting list it sees when it
\* computes the quantum (a stall moves the head of waiting to runnable)
NextSelected == IF runnable # <<>> THEN Head(runnable) ELSE Head(waiting)

NextStillWaiting == IF runnable # <<>> THEN waiting ELSE Tail(waiting)

\* C6: Round-Robin with time_slice 2 on the documented scenario ends with
\* completion times P1 = 12, P2 = 9, P3 = 16, wait times 7, 6, 8 and
\* clock 16.
C6_RoundRobinScenario ==
    (policy = "RR" /\ time_slice = 2 /\ processes = Scenario /\ is_done) =>
        /\ <<proc[1].comp_time, proc[2].comp_time, proc[3].comp_time>>
              = <<12, 9, 16>>
        /\ <<proc[1].wait_time, proc[2].wait_time, proc[3].wait_time>>
              = <<7, 6, 8>>
        /\ time = 16

C6_Witness ==
    /\ policy = "RR"
    /\ time_slice = 2
    /\ processes = Scenario
    /\ is_done
    /\ Len(done_processes) = 3

\* C7 as stated: the SRTF quantum is the selected process's time_left,
\* clipped to the arrival_time of the head w of waiting whenever
\* w.arrival_time < time_left of the selected process.
C7_ClipOnArrivalAlone ==
    [][(policy = "SRTF" /\ ~is_done) =>
         LET c_left == time_left(proc[NextSelected])
             w == NextStillWaiting
         IN step_time_ran' =
               IF w # <<>> /\ proc[Head(w)].arrival_time < c_left
               THEN proc[Head(w)].arrival_time
               ELSE c_left]_vars

\* C7 amended: the SRTF quantum is the selected process's time_left,
\* clipped to the arrival_time of the head w of waiting exactly when
\* time_left of the selected process > w.arrival_time + w.time_left; the
\* decision depends on w's time_left too.
C7_ClipIfShorterArrives ==
    [][(policy = "SRTF" /\ ~is_done) =>
         LET c_left == time_left(proc[NextSelected])
             w == NextStillWaiting
         IN step_time_ran' =
               IF w # <<>> /\ c_left > proc[Head(w)].arrival_time
                                        + time_left(proc[Head(w)])
               THEN proc[Head(w)].arrival_time
               ELSE c_left]_vars

\* an SRTF step that was clipped: the current process was preempted while a
\* longer process is still waiting for its arrival
C7_Witness ==
    /\ policy = "SRTF"
    /\ curr_process # 0
    /\ ~proc_is_done(proc[curr_process])
    /\ step_time_ran < time_left(proc[curr_process])
    /\ waiting # <<>>

\* C8: the process an SRTF step selects has the minimum time_left among
\* the processes in runnable at that moment.
C8_SelectsShortestRemaining ==
    [][(policy = "SRTF" /\ runnable # <<>>) =>
         \A k \in 1..Len(runnable) :
            time_left(proc[curr_process']) <= time_left(proc[runnable[k]])]_vars

\* C9: for an input of one process with execution time e and arrival time
\* a, the first step stalls the clock by exactly a before it runs the
\* process, the process never waits, and it finishes with
\* completion_time = e at clock a + e.
C9_SingleProcess ==
    N = 1 =>
        LET p == proc[1]
            a == processes[1].arrival_time
            e == processes[1].ex_time
        IN /\ p.wait_time = 0
           /\ nsteps = 0 => time = 0
           /\ nsteps = 1 => time - step_time_ran = a
           /\ nsteps >= 1 => time = a + p.processed_time
           /\ is_done => /\ done_processes = <<1>>
                         /\ p.comp_time = e
                         /\ time = a + e

C9_Witness ==
    /\ N = 1
    /\ is_done
    /\ processes[1].arrival_time > 0
    /\ processes[1].ex_time = MaxExTime
    /\ time = processes[1].arrival_time + MaxExTime

\* C10: at every step boundary the sum of the quanta so far equals the sum
\* of processed_time over all processes, and when the scheduler is done it
\* equals the sum of ex_time over the done list.
C10_QuantaConservation ==
    /\ quanta = SumProcessed(N)
    /\ is_done => quanta = SumExTime(done_processes)

C10_Witness ==
    /\ is_done
    /\ N = 3
    /\ nsteps > 3
    /\ quanta > 3

\* C11: the clock never decreases from one step to the next, and when the
\* scheduler is done it is at least the original arrival_time + ex_time of
\* every input process.
C11_ClockBound ==
    /\ [][time' >= time]_vars
    /\ [](is_done =>
            \A i \in Pids :
               time >= processes[i].arrival_time + processes[i].ex_time)

\* a finished run in which the clock is strictly beyond the bound of a
\* process that arrived late
C11_Witness ==
    /\ is_done
    /\ N >= 2
    /\ \E i \in Pids :
          /\ processes[i].arrival_time > 0
          /\ time > processes[i].arrival_time + processes[i].ex_time

\* ------------------------------------------------------------------------
\* the observers
\* ------------------------------------------------------------------------

\* a step has just been taken
Stepped == nsteps' = nsteps + 1

\* the listeners called on a hook during the last step, in call order
Called(ev, hook) ==
    LET calls == SelectSeq(ev, LAMBDA e : e.ev = hook)
    IN [k \in 1..Len(calls) |-> calls[k].fn]

\* the current process of the last step finished in it
Finished(p, curr) == curr # 0 /\ proc_is_done(p[curr])

\* C13: in every step each registered step listener is called exactly once,
\* in registration order, iff verbose >= 2; when the process of the step
\* finishes each registered process-done listener is called exactly once, in
\* registration order, iff verbose >= 1 (and none is called when it does not
\* finish); at verbose 0 nothing is called; the finished process is appended
\* to done whatever verbose is, before the process-done listeners run.
C13_ObserverGating ==
    [][Stepped =>
        /\ Called(events', "step_end") =
              IF verbose >= 2 THEN step_end_listeners ELSE <<>>
        /\ Called(events', "process_done") =
              IF verbose >= 1 /\ Finished(proc', curr_process')
              THEN process_done_listeners ELSE <<>>
        /\ verbose = 0 => \A k \in 1..Len(events') : events'[k].fn = 0
        /\ \A k \in 1..Len(events') :
              events'[k].fn # 0 => events'[k].who = curr_process'
        /\ Finished(proc', curr_process') =>
              /\ done_processes' = Append(done_processes, curr_process')
              /\ \A k \in 1..Len(events') :
                    events'[k].ev = "process_done" =>
                       \E j \in 1..(k - 1) : events'[j].ev = "done"
        /\ ~Finished(proc', curr_process') =>
              done_processes' = done_processes]_vars

C13_Witness ==
    /\ verbose = 2
    /\ N >= 2
    /\ step_end_listeners = <<1, 2>>
    /\ process_done_listeners = <<1, 2>>
    /\ Called(events, "step_end") = <<1, 2>>
    /\ Called(events, "process_done") = <<1, 2>>
    /\ Len(done_processes) = 2

\* C14: at verbose >= 2, in every step that moves a process from waiting to
\* runnable (by arrival promotion or by a stall) every registered
\* process-arrive listener is called.
C14_ArriveHookLive ==
    [][(/\ Stepped
        /\ verbose >= 2
        /\ \E k \in 1..Len(events') : events'[k].ev \in {"arrive", "stall"})
       => \A i \in 1..Len(process_arrive_listeners) :
             \E k \in 1..Len(events') :
                /\ events'[k].ev = "process_arrive"
                /\ events'[k].fn = process_arrive_listeners[i]]_vars
\* ------------------------------------------------------------------------
\* the order of the statements of a step
\* ------------------------------------------------------------------------

Count(ev, tag) == Len(SelectSeq(ev, LAMBDA e : e.ev = tag))

Pos(ev, tag) == CHOOSE k \in 1..Len(ev) : ev[k].ev = tag

\* each of the quantum, the accrual loop, the promotion loop and the clock
\* advance happens once in a step
OncePerStep(ev) ==
    \A tag \in {"run", "wait", "promote", "clock"} : Count(ev, tag) = 1

\* C18, as stated: in each step of every policy the accrual of wait time and
\* the arrival promotion happen after the quantum is consumed and before
\* the clock is advanced.
C18_AccrualBeforeClock ==
    [][Stepped =>
        /\ OncePerStep(events')
        /\ Pos(events', "run") < Pos(events', "wait")
        /\ Pos(events', "run") < Pos(events', "promote")
        /\ Pos(events', "wait") < Pos(events', "clock")
        /\ Pos(events', "promote") < Pos(events', "clock")]_vars

\* C18, amended: in each step of every policy the accrual and then the
\* promotion happen after the quantum is consumed; Round-Robin and SRTF
\* advance the clock after both, FIFO and SJF advance it after the quantum
\* and before both.
C18_AccrualAfterQuantum ==
    [][Stepped =>
        /\ OncePerStep(events')
        /\ Pos(events', "run") < Pos(events', "wait")
        /\ Pos(events', "wait") < Pos(events', "promote")
        /\ \A k \in 1..Len(events') :
              events'[k].ev = "arrive" => Pos(events', "promote") < k
        /\ policy \in {"RR", "SRTF"} =>
              /\ Pos(events', "promote") < Pos(events', "clock")
              /\ \A k \in 1..Len(events') :
                    events'[k].ev = "arrive" => k < Pos(events', "clock")
        /\ policy \in {"FIFO", "SJF"} =>
              /\ Pos(events', "run") < Pos(events', "clock")
              /\ Pos(events', "clock") < Pos(events', "wait")]_vars

C18_Witness ==
    /\ policy = "SJF"
    /\ nsteps > 0
    /\ Len(runnable) >= 2
    /\ \E k \in 1..Len(events) :
          /\ events[k].ev = "arrive"
          /\ Pos(events, "clock") < k
\* ------------------------------------------------------------------------
\* the charges of a step
\* ------------------------------------------------------------------------

InSeq(a, i) == \E k \in 1..Len(a) : a[k] = i

\* C19: in every step with quantum D the current process gains D of
\* processed_time and no wait_time, every other process that was runnable
\* gains exactly D of wait_time and nothing else, every process waiting when
\* the quantum starts has (decrease of arrival_time) + (increase of
\* wait_time) = D and no processed_time, and done processes do not change.
C19_NoDoubleCharge ==
    [][Stepped =>
        LET D == step_time_ran'
            c == curr_process'
        IN /\ c = NextSelected
           /\ proc'[c].processed_time = proc[c].processed_time + D
           /\ proc'[c].wait_time = proc[c].wait_time
           /\ \A i \in Pids \ {c} :
                 /\ InSeq(runnable, i) =>
                       proc'[i] = [proc[i] EXCEPT !.wait_time = @ + D,
                                                  !.comp_time = @ + D]
                 /\ InSeq(NextStillWaiting, i) =>
                       /\ (proc[i].arrival_time - proc'[i].arrival_time)
                             + (proc'[i].wait_time - proc[i].wait_time) = D
                       /\ proc'[i].arrival_time <= proc[i].arrival_time
                       /\ proc'[i].wait_time >= proc[i].wait_time
                       /\ proc'[i].processed_time = proc[i].processed_time
                 /\ InSeq(done_processes, i) => proc'[i] = proc[i]]_vars

C19_Witness ==
    /\ policy = "RR"
    /\ Len(runnable) = 3
    /\ done_processes = <<>>
    /\ \E k \in 1..Len(events) :
          /\ events[k].ev = "requeue"
          /\ events[k].who = curr_process
    /\ \E k \in 1..Len(events) :
          /\ events[k].ev = "arrive"
          /\ processes[events[k].who].arrival_time > 0
          /\ proc[events[k].who].wait_time > 0
          /\ proc[events[k].who].wait_time =
                step_time_ran - processes[events[k].who].arrival_time
\* ------------------------------------------------------------------------
\* the waiting list
\* ------------------------------------------------------------------------

\* waiting is in ascending order of (arrival_time, ex_time) and holds only
\* processes that have not arrived
WaitingSorted ==
    /\ \A k \in 1..Len(waiting) : proc[waiting[k]].arrival_time > 0
    /\ \A j, k \in 1..Len(waiting) :
          j < k => ~Lt(proc[waiting[k]], proc[waiting[j]])

\* the processes promoted by the loop of the last step, in promotion order
Arrived(ev) ==
    LET a == SelectSeq(ev, LAMBDA e : e.ev = "arrive")
    IN [k \in 1..Len(a) |-> a[k].who]

\* how many processes of the list a have at most d left to their arrival
Due(a, d) == Cardinality({k \in 1..Len(a) : proc[a[k]].arrival_time <= d})

\* C20: waiting is sorted by (arrival_time, ex_time) with every
\* arrival_time > 0 at every step boundary; a step with quantum D promotes
\* exactly the processes whose arrival_time was <= D when the quantum
\* started, in the ascending order they had in waiting; each of them ends
\* in runnable and the others stay in waiting in their order.
C20_WaitingSortedPromotion ==
    /\ []WaitingSorted
    /\ [][Stepped =>
            LET D == step_time_ran'
                w == NextStillWaiting
                n == Due(w, D)
            IN /\ Arrived(events') = SubSeq(w, 1, n)
               /\ waiting' = SubSeq(w, n + 1, Len(w))
               /\ \A k \in 1..Len(w) :
                     /\ k <= n <=> proc[w[k]].arrival_time <= D
                     /\ k <= n => /\ InSeq(runnable', w[k])
                                  /\ proc'[w[k]].arrival_time = 0
                     /\ k > n => proc'[w[k]].arrival_time =
                                    proc[w[k]].arrival_time - D]_vars

C20_Witness ==
    /\ Len(Arrived(events)) = 2
    /\ processes[Arrived(events)[1]].arrival_time
          < processes[Arrived(events)[2]].arrival_time
    /\ Arrived(events)[2] < Arrived(events)[1]
    /\ policy = "SJF"
\* ------------------------------------------------------------------------
\* the statistics of run()
\* ------------------------------------------------------------------------

RECURSIVE SumOverAll(_, _)
\* the sum of f(process) over the processes 1..n
SumOverAll(f(_), n) ==
    IF n = 0 THEN 0 ELSE f(proc[n]) + SumOverAll(f, n - 1)

CompletionOf(p) == p.comp_time
WaitOf(p) == p.wait_time

\* C15, as stated: after run() on a non-empty input num_processes_ran is the
\* number of input processes, avg_comp_time * num_processes_ran equals the
\* sum of completion_time over done, avg_wait_time * num_processes_ran
\* equals the sum of wait_time over done, and the record has a time_slice
\* iff the policy is Round-Robin.
C15_AveragesTimesCount ==
    (outcome = "returned" /\ N > 0) =>
        /\ stats.num_processes_ran = N
        /\ FloatMulInt(stats.avg_comp_time, stats.num_processes_ran) =
              FloatOfInt(SumCompletion(proc, done_processes))
        /\ FloatMulInt(stats.avg_wait_time, stats.num_processes_ran) =
              FloatOfInt(SumWait(proc, done_processes))
        /\ "time_slice" \in stats.keys <=> policy = "RR"

\* C15, amended: after run() on a non-empty input num_processes_ran is the
\* number of input processes, avg_comp_time is the float nearest to (sum of
\* completion_time of all input processes) / num_processes_ran,
\* avg_wait_time the float nearest to (sum of their wait_time) /
\* num_processes_ran, and the record has a time_slice, equal to the
\* scheduler's, iff the policy is Round-Robin.
C15_AveragesAreQuotients ==
    (outcome = "returned" /\ N > 0) =>
        /\ stats.num_processes_ran = N
        /\ stats.avg_comp_time = FloatDiv(SumOverAll(CompletionOf, N), N)
        /\ stats.avg_wait_time = FloatDiv(SumOverAll(WaitOf, N), N)
        /\ "time_slice" \in stats.keys <=> policy = "RR"
        /\ policy = "RR" => stats.time_slice = time_slice
        /\ {"avg_comp_time", "avg_wait_time", "num_processes_ran"}
              \subseteq stats.keys

C15_Witness ==
    /\ outcome = "returned"
    /\ policy = "FIFO"
    /\ processes = Seven
    /\ SumCompletion(proc, done_processes) = 29
    /\ stats.avg_comp_time = FloatDiv(29, 7)
    /\ FloatMulInt(stats.avg_comp_time, 7) # FloatOfInt(29)

\* C16: run() on a scheduler built from an empty list takes no step and
\* ends with ZeroDivisionError, without a returned record; on a non-empty
\* input it never ends that way: it returns.
C16_EmptyRunDividesByZero ==
    /\ outcome = "ZeroDivisionError" <=> (policy # "none" /\ N = 0 /\ outcome # "")
    /\ outcome = "ZeroDivisionError" =>
          /\ nsteps = 0
          /\ "title" \notin stats.keys
          /\ stats.num_processes_ran = 0
    /\ (outcome # "" /\ N > 0) => outcome = "returned"

C16_Witness ==
    /\ outcome = "ZeroDivisionError"
    /\ policy = "RR"
    /\ N = 0
\* ------------------------------------------------------------------------
\* schedulers built from one list
\* ------------------------------------------------------------------------

\* the scheduler of policy pol and time_slice ts built from the list alone,
\* after its steps have run it to the end
Alone(pol, ts) ==
    The({RunLoop(Load(n.inst, n.heap)) :
            n \in {NewScheduler(NewProcs(processes), InputObjects, pol, ts)}})

\* the place in the caller's list of the process an object of s stands for
PlaceIn(s, o) == CHOOSE i \in 1..Len(s.refs) : s.refs[i] = o

DoneOrder(s) == [k \in 1..Len(s.done) |-> PlaceIn(s, s.done[k])]

\* the objects of the caller's list are as they were made
InputsUntouched ==
    \A i \in 1..N :
       heap[i] = Process(processes[i].ex_time, processes[i].arrival_time)

\* C12: with two schedulers built from one list and stepped in any
\* interleaving, a scheduler that is done has the done order, the wait_time
\* and completion_time of every process and the clock it has when it runs
\* alone, and no step changes a process of the caller's list.
C12_NoSharedState ==
    /\ InputsUntouched
    /\ \A k \in 1..Len(schedulers) :
          Idle(schedulers[k]) =>
             \E a \in {Alone(schedulers[k].policy, schedulers[k].time_slice)} :
                /\ DoneOrder(schedulers[k]) = DoneOrder(a)
                /\ schedulers[k].time = a.time
                /\ schedulers[k].ok
                /\ \A i \in 1..N :
                      /\ heap[schedulers[k].refs[i]].wait_time =
                            a.proc[a.refs[i]].wait_time
                      /\ heap[schedulers[k].refs[i]].comp_time =
                            a.proc[a.refs[i]].comp_time

C12_Witness ==
    /\ Len(schedulers) = 2
    /\ processes = Staggered
    /\ schedulers[1].policy = "RR"
    /\ schedulers[2].policy = "RR"
    /\ schedulers[1].time_slice = schedulers[2].time_slice
    /\ Idle(schedulers[2])
    /\ ~Idle(schedulers[1])
    /\ Len(schedulers[1].done) = 1
    /\ DoneOrder(schedulers[2]) = <<3, 1, 2>>
\* ------------------------------------------------------------------------
\* Simulator.compare
\* ------------------------------------------------------------------------

\* the title of the scheduler at place k of the list
TitleAt(k) == Title(schedulers[k])

\* the scheduler at place k has been run to the end by run()
RanToEnd(k) ==
    /\ schedulers[k].outcome = "returned"
    /\ Idle(schedulers[k])
    /\ Len(schedulers[k].done) = N
    /\ \A i \in 1..N : proc_is_done(heap[schedulers[k].refs[i]])

\* C17: compare on a non-empty list of schedulers (built from a non-empty
\* process list) does not fail; its loop runs the schedulers one by one in
\* list order, each to its end; every scheduler has been run to its end
\* when a visual is called; the mapping returned has exactly the titles of
\* the schedulers as keys, and the entry of a title is the statistics of
\* the last scheduler of the list with that title.
C17_CompareLastTitleWins ==
    /\ [][cmp'.i = cmp.i + 1 =>
            /\ \A k \in 1..Len(schedulers) :
                  /\ k <= cmp.i => RanToEnd(k)
                  /\ k > cmp.i => schedulers[k].outcome = ""
            /\ schedulers'[cmp'.i].outcome = "returned"]_vars
    /\ [][cmp'.shown = cmp.shown + 1 =>
            \A k \in 1..Len(schedulers) : RanToEnd(k)]_vars
    /\ [](cmp.pc = "returned" =>
            /\ Len(schedulers) > 0
            /\ DOMAIN history = {TitleAt(k) : k \in 1..Len(schedulers)}
            /\ \A t \in DOMAIN history :
                  /\ TitleAt(history[t]) = t
                  /\ \A k \in 1..Len(schedulers) :
                        TitleAt(k) = t => k <= history[t]
                  /\ "title" \notin schedulers[history[t]].stats.keys
                  /\ schedulers[history[t]].stats.num_processes_ran = N
            /\ \A k \in 1..Len(schedulers) : RanToEnd(k)
            /\ cmp.shown = cmp.nvis)
    /\ [](/\ cmp.pc = "AssertionError" => Len(schedulers) = 0
          /\ cmp.pc = "ZeroDivisionError" => N = 0
          /\ cmp.pc \in {"idle", "running", "returned", "AssertionError",
                         "ZeroDivisionError"})

C17_Witness ==
    /\ cmp.pc = "returned"
    /\ cmp.shown > 0
    /\ Len(schedulers) >= 2
    /\ N >= 2
    /\ TitleAt(1) = "R.R. (2)"
    /\ TitleAt(2) = "R.R. (2)"
    /\ DOMAIN history = {"R.R. (2)"}
    /\ history["R.R. (2)"] = 2
\* ------------------------------------------------------------------------
\* conservation of the processes
\* ------------------------------------------------------------------------

\* how many times the process i is in the list a
Occurrences(a, i) == Cardinality({k \in 1..Len(a) : a[k] = i})

\* C21: at every step boundary each input process is exactly once in
\* runnable, waiting and done taken together; a promoted process was in the
\* waiting list of the step, is no longer in waiting and is once in
\* runnable; a requeued process is once in runnable.
C21_ProcessConservation ==
    /\ [](\A i \in Pids :
            Occurrences(runnable, i) + Occurrences(waiting, i)
               + Occurrences(done_processes, i) = 1)
    /\ [](\A k \in 1..Len(runnable) : runnable[k] \in Pids)
    /\ [](\A k \in 1..Len(waiting) : waiting[k] \in Pids)
    /\ [](\A k \in 1..Len(done_processes) : done_processes[k] \in Pids)
    /\ [][Stepped =>
            \A k \in 1..Len(events') :
               /\ events'[k].ev = "arrive" =>
                     /\ InSeq(NextStillWaiting, events'[k].who)
                     /\ ~InSeq(waiting', events'[k].who)
                     /\ Occurrences(runnable', events'[k].who) = 1
               /\ events'[k].ev = "requeue" =>
                     /\ events'[k].who = curr_process'
                     /\ Occurrences(runnable', curr_process') = 1
                     /\ ~InSeq(done_processes', curr_process')]_vars

C21_Witness ==
    /\ policy \in {"RR", "SRTF"}
    /\ waiting # <<>>
    /\ \E k \in 1..Len(events) : events[k].ev = "arrive"
    /\ \E k \in 1..Len(events) : events[k].ev = "requeue"
    /\ done_processes = <<>>
\* ------------------------------------------------------------------------
\* the order of runnable under SJF and SRTF
\* ------------------------------------------------------------------------

\* the processes the next step chooses from (after its stall, if any)
NextCandidates == IF runnable # <<>> THEN runnable ELSE <<Head(waiting)>>

\* C22: under SJF and SRTF runnable is ascending by (arrival_time,
\* ex_time) at every step boundary; the process a step selects is a minimum
\* of that order among the processes it chooses from, and under SJF it has
\* the least ex_time of them.
C22_RunnableSorted ==
    /\ [](policy \in {"SJF", "SRTF"} =>
            \A j, k \in 1..Len(runnable) :
               j < k => ~Lt(proc[runnable[k]], proc[runnable[j]]))
    /\ [][(Stepped /\ policy \in {"SJF", "SRTF"}) =>
            /\ curr_process' = NextSelected
            /\ \A k \in 1..Len(NextCandidates) :
                  ~Lt(proc[NextCandidates[k]], proc[NextSelected])]_vars
    /\ [][(Stepped /\ policy = "SJF") =>
            \A k \in 1..Len(NextCandidates) :
               proc[curr_process'].ex_time
                  <= proc[NextCandidates[k]].ex_time]_vars

C22_Witness ==
    /\ policy = "SJF"
    /\ \E k \in 1..Len(events) : events[k].ev = "arrive"
    /\ Len(runnable) = 2
    /\ runnable[1] > runnable[2]
    /\ proc[runnable[1]].ex_time < proc[runnable[2]].ex_time
\* ------------------------------------------------------------------------
\* FIFO and SJF run every process to completion
\* ------------------------------------------------------------------------

\* C23: under FIFO and SJF a step selects a process that is not done, runs
\* it for its full ex_time without a failing assertion, appends it to done
\* in that step and does not put it back in runnable; there are as many
\* steps as done processes, and as many as input processes when the
\* scheduler is done.
C23_NoPreemption ==
    /\ [](policy \in {"FIFO", "SJF"} =>
            /\ asserts_ok
            /\ nsteps = Len(done_processes)
            /\ (runnable = <<>> /\ waiting = <<>>) => nsteps = N)
    /\ [][(Stepped /\ policy \in {"FIFO", "SJF"}) =>
            /\ ~InSeq(done_processes, curr_process')
            /\ step_time_ran' = proc[curr_process'].ex_time
            /\ proc'[curr_process'].ex_time = proc[curr_process'].ex_time
            /\ proc'[curr_process'].processed_time = step_time_ran'
            /\ done_processes' = Append(done_processes, curr_process')
            /\ ~InSeq(runnable', curr_process')
            /\ ~InSeq(waiting', curr_process')]_vars

C23_Witness ==
    /\ policy \in {"FIFO", "SJF"}
    /\ N = 3
    /\ nsteps = 3
    /\ runnable = <<>> /\ waiting = <<>>
    /\ \E i \in Pids : proc[i].ex_time = 3 /\ proc[i].processed_time = 3
    /\ \E i \in Pids : processes[i].arrival_time > 0
\* ------------------------------------------------------------------------
\* the order in which FIFO finishes the processes
\* ------------------------------------------------------------------------

\* the input process a comes before the input process b in the order
\* "arrival_time 0 in input order, then ascending (arrival_time, ex_time)"
FinishesBefore(a, b) ==
    LET p == processes[a]
        q == processes[b]
    IN IF p.arrival_time = 0
       THEN q.arrival_time > 0 \/ a < b
       ELSE /\ q.arrival_time > 0
            /\ \/ p.arrival_time < q.arrival_time
               \/ /\ p.arrival_time = q.arrival_time
                  /\ p.ex_time < q.ex_time

\* C24: under FIFO the done list never holds a process behind one that
\* comes after it in the order "arrival_time 0 in input order, then
\* ascending (original arrival_time, ex_time)", no unfinished process comes
\* before a finished one in that order, and no process finishes before one
\* that arrived strictly earlier.
C24_FIFOFinishOrder ==
    policy = "FIFO" =>
       /\ \A j, k \in 1..Len(done_processes) :
             j < k =>
                /\ ~FinishesBefore(done_processes[k], done_processes[j])
                /\ processes[done_processes[j]].arrival_time
                      <= processes[done_processes[k]].arrival_time
       /\ \A j \in 1..Len(done_processes) :
             \A i \in Pids :
                ~InSeq(done_processes, i) =>
                   /\ ~FinishesBefore(i, done_processes[j])
                   /\ processes[done_processes[j]].arrival_time
                         <= processes[i].arrival_time

C24_Witness ==
    /\ policy = "FIFO"
    /\ N = 3
    /\ processes[1].arrival_time = 0 /\ processes[1].ex_time = 3
    /\ processes[2].arrival_time = 1
    /\ processes[3].arrival_time = 0 /\ processes[3].ex_time = 1
    /\ done_processes = <<1, 3, 2>>
\* ------------------------------------------------------------------------
\* the Round-Robin quantum and requeue
\* ------------------------------------------------------------------------

\* the runnable processes the next step does not select
NextOthers == IF runnable # <<>> THEN Tail(runnable) ELSE <<>>

\* C25: a Round-Robin step runs the selected process for min(time_slice,
\* its time_left), at least 1; a process that is not done after it is put
\* once at the end of runnable, behind the processes already runnable and
\* those that arrived in the step, before the clock advances; a process
\* that is done is appended to done and is not in runnable.
C25_RoundRobinQuantumRequeue ==
    [][(Stepped /\ policy = "RR") =>
         LET c == curr_process'
         IN /\ c = NextSelected
            /\ step_time_ran' = Min(time_slice, time_left(proc[c]))
            /\ step_time_ran' >= 1
            /\ proc'[c].processed_time
                  = proc[c].processed_time + step_time_ran'
            /\ IF proc_is_done(proc'[c])
               THEN /\ done_processes' = Append(done_processes, c)
                    /\ runnable' = NextOthers \o Arrived(events')
                    /\ Count(events', "requeue") = 0
               ELSE /\ done_processes' = done_processes
                    /\ runnable'
                          = (NextOthers \o Arrived(events')) \o <<c>>
                    /\ Count(events', "requeue") = 1
                    /\ Count(events', "clock") = 1
                    /\ Pos(events', "requeue") < Pos(events', "clock")
                    /\ \A k \in 1..Len(events') :
                          events'[k].ev = "arrive"
                             => k < Pos(events', "requeue")]_vars

C25_Witness ==
    /\ policy = "RR"
    /\ time_slice = 2
    /\ Count(events, "requeue") = 1
    /\ Count(events, "arrive") >= 1
    /\ Len(runnable) = 3
    /\ time_left(proc[curr_process]) = 1
\* ------------------------------------------------------------------------
\* the clock and the arrival_time of the waiting processes
\* ------------------------------------------------------------------------

\* C26: at every step boundary, for every process p in waiting, the clock
\* plus p.arrival_time is the original arrival time of p.
C26_ClockPlusArrival ==
    \A k \in 1..Len(waiting) :
       time + proc[waiting[k]].arrival_time
          = processes[waiting[k]].arrival_time
\* ------------------------------------------------------------------------
\* done processes
\* ------------------------------------------------------------------------

\* C27: a step leaves processed_time, wait_time, completion_time and
\* arrival_time of every process that was already in done as they were,
\* does not select such a process, and keeps it at its place in done.
C27_DoneFrozen ==
    [][Stepped =>
         \A k \in 1..Len(done_processes) :
            LET i == done_processes[k]
            IN /\ proc'[i].processed_time = proc[i].processed_time
               /\ proc'[i].wait_time = proc[i].wait_time
               /\ proc'[i].comp_time = proc[i].comp_time
               /\ proc'[i].arrival_time = proc[i].arrival_time
               /\ curr_process' # i
               /\ k <= Len(done_processes')
               /\ done_processes'[k] = i
               /\ ~InSeq(runnable', i)
               /\ ~InSeq(waiting', i)]_vars

C27_Witness ==
    /\ policy \in {"RR", "SRTF"}
    /\ Len(done_processes) = 2
    /\ curr_process # 0
    /\ ~InSeq(done_processes, curr_process)
    /\ step_time_ran > 0
    /\ proc[done_processes[2]].wait_time > 0
    /\ InSeq(runnable, curr_process)
\* ------------------------------------------------------------------------
\* the assert statements
\* ------------------------------------------------------------------------

\* C28: no assert of Process.run, Process.wait or Process.wait_arrival
\* fails under any policy; the time a step asks run() for (time ran plus
\* time left over) is at least 1, and under SRTF it is at most the time_left
\* of the selected process, so that run() returns the leftover 0.
C28_AssertsHold ==
    /\ []asserts_ok
    /\ [][Stepped =>
            /\ step_time_ran' + time_leftover' >= 1
            /\ step_time_ran' >= 1
            /\ policy = "SRTF" =>
                  /\ curr_process' = NextSelected
                  /\ step_time_ran' + time_leftover'
                        <= time_left(proc[NextSelected])
                  /\ time_leftover' = 0]_vars

C28_Witness ==
    /\ policy = "SRTF"
    /\ asserts_ok
    /\ Count(events, "requeue") = 1
    /\ Count(events, "arrive") = 1
    /\ step_time_ran = 1
    /\ time_leftover = 0
    /\ time_left(proc[curr_process]) = 2
====
